---------------------------- MODULE Spec2Model ----------------------------
(***************************************************************************)
(* Model of scripts/generate_room_sensors.py: the generator of Home        *)
(* Assistant template sensors for room-based air quality tracking.         *)
(*                                                                         *)
(* Text whose characters the program inspects or rewrites (room names,     *)
(* metric keys, unique ids) is a sequence of Unicode code points.  Text    *)
(* the program only copies (entity ids, display names, units) is a string. *)
(* The generated YAML is a sequence of physical lines; a line is a record  *)
(* [t |-> the literal part of the line, a |-> the values interpolated      *)
(* into it].  A dict is the sequence of its items in insertion order.      *)
(***************************************************************************)
EXTENDS Integers, Sequences, FiniteSets, TLC

(***************************************************************************)
(* Bound of the model: the selectors range over the last MaxSelRooms rooms *)
(* of ROOMS and one value that is no room.                                 *)
(***************************************************************************)
MaxSelRooms == 2

---------------------------------------------------------------------------
(* ROOMS: the room list (23 rooms), in declaration order.                  *)
ROOMS == <<
    <<72, 121, 98, 101, 108>>,                                      \*  1 Hybel
    <<85, 110, 100, 101, 114, 32, 104, 97, 103, 101, 115, 116, 117, 101, 110>>,
                                                                    \*  2 Under hagestuen
    <<85, 110, 100, 101, 114, 32, 115, 111, 118, 101, 114, 111, 109, 109, 101, 110, 101>>,
                                                                    \*  3 Under soverommene
    <<85, 110, 100, 101, 114, 32, 115, 111, 118, 101, 114, 111, 109, 115, 103, 97, 110, 103, 101, 110>>,
                                                                    \*  4 Under soveromsgangen
    <<66, 111, 100, 32, 49>>,                                       \*  5 Bod 1
    <<66, 111, 100, 32, 50>>,                                       \*  6 Bod 2
    <<75, 106, 101, 108, 108, 101, 114, 114, 111, 109>>,            \*  7 Kjellerrom
    <<72, 97, 103, 101, 115, 116, 117, 101>>,                       \*  8 Hagestue
    <<72, 111, 118, 101, 100, 98, 97, 100>>,                        \*  9 Hovedbad
    <<83, 111, 118, 101, 114, 111, 109, 32, 49>>,                   \* 10 Soverom 1
    <<83, 111, 118, 101, 114, 111, 109, 32, 50>>,                   \* 11 Soverom 2
    <<83, 111, 118, 101, 114, 111, 109, 32, 51>>,                   \* 12 Soverom 3
    <<84, 111, 97, 108, 101, 116, 116, 32, 49>>,                    \* 13 Toalett 1
    <<84, 111, 97, 108, 101, 116, 116, 32, 50>>,                    \* 14 Toalett 2
    <<66, 97, 114, 110, 101, 101, 110, 116, 114, 101>>,             \* 15 Barneentre
    <<69, 110, 116, 114, 101>>,                                     \* 16 Entre
    <<70, 114, 121, 115, 101, 114, 111, 109, 109, 101, 116>>,       \* 17 Fryserommet
    <<71, 97, 114, 97, 115, 106, 101>>,                             \* 18 Garasje
    <<71, 97, 114, 97, 115, 106, 101, 98, 111, 100>>,               \* 19 Garasjebod
    <<71, 114, 111, 118, 107, 106, 248, 107, 107, 101, 110>>,       \* 20 Grovkjøkken
    <<75, 106, 248, 107, 107, 101, 110>>,                           \* 21 Kjøkken
    <<71, 106, 101, 115, 116, 101, 114, 111, 109>>,                 \* 22 Gjesterom
    <<83, 116, 117, 101>>                                           \* 23 Stue
>>

(* The metric keys, as the code points of the keys of METRICS.             *)
temperature == <<116, 101, 109, 112, 101, 114, 97, 116, 117, 114, 101>>
humidity    == <<104, 117, 109, 105, 100, 105, 116, 121>>
pm2_5       == <<112, 109, 50, 95, 53>>
voc         == <<118, 111, 99>>
co2         == <<99, 111, 50>>
radon       == <<114, 97, 100, 111, 110>>
pm1         == <<112, 109, 49>>
pressure    == <<112, 114, 101, 115, 115, 117, 114, 101>>
brightness  == <<98, 114, 105, 103, 104, 116, 110, 101, 115, 115>>

(* Python's None, where the program stores it in place of a string.        *)
None == "None"

(* METRICS: metric definitions with their properties, in insertion order.  *)
METRICS == <<
    [key |-> temperature,
     def |-> [name |-> "Temperature", device_class |-> "temperature",
              state_class |-> "measurement", unit |-> "°C"]],
    [key |-> humidity,
     def |-> [name |-> "Humidity", device_class |-> "humidity",
              state_class |-> "measurement", unit |-> "%"]],
    [key |-> pm2_5,
     def |-> [name |-> "PM2.5", device_class |-> "pm25",
              state_class |-> "measurement", unit |-> "µg/m³"]],
    [key |-> voc,
     def |-> [name |-> "VOC", device_class |-> "aqi",
              state_class |-> "measurement", unit |-> None]],
    [key |-> co2,
     def |-> [name |-> "CO2", device_class |-> "carbon_dioxide",
              state_class |-> "measurement", unit |-> "ppm"]],
    [key |-> radon,
     def |-> [name |-> "Radon", device_class |-> None,
              state_class |-> "measurement", unit |-> "Bq/m³"]],
    [key |-> pm1,
     def |-> [name |-> "PM1", device_class |-> "pm1",
              state_class |-> "measurement", unit |-> "µg/m³"]],
    [key |-> pressure,
     def |-> [name |-> "Atmospheric Pressure", device_class |-> "atmospheric_pressure",
              state_class |-> "measurement", unit |-> "hPa"]],
    [key |-> brightness,
     def |-> [name |-> "Brightness", device_class |-> "illuminance",
              state_class |-> "measurement", unit |-> "lx"]]
>>

(* The five physical sensors: each has the selector naming its room, a     *)
(* display name and the mapping metric key -> supplying entity.            *)
v1 ==
    [key |-> "v1",
     config |-> [input_select |-> "input_select.air_probe_v1_room",
                 name |-> "Vindstyrka 1",
                 metrics |-> <<
                    [key |-> temperature, entity |-> "sensor.ikea_vindstyrka_1_temperature"],
                    [key |-> humidity,    entity |-> "sensor.ikea_vindstyrka_1_humidity"],
                    [key |-> pm2_5,       entity |-> "sensor.ikea_vindstyrka_1_pm2_5"],
                    [key |-> voc,         entity |-> "sensor.ikea_vindstyrka_1_voc_index"] >>]]
v2 ==
    [key |-> "v2",
     config |-> [input_select |-> "input_select.air_probe_v2_room",
                 name |-> "Vindstyrka 2",
                 metrics |-> <<
                    [key |-> temperature, entity |-> "sensor.ikea_vindstyrka_2_temperature"],
                    [key |-> humidity,    entity |-> "sensor.ikea_vindstyrka_2_humidity"],
                    [key |-> pm2_5,       entity |-> "sensor.ikea_vindstyrka_2_pm2_5"],
                    [key |-> voc,         entity |-> "sensor.ikea_vindstyrka_2_voc_index"] >>]]
v3 ==
    [key |-> "v3",
     config |-> [input_select |-> "input_select.air_probe_v3_room",
                 name |-> "Vindstyrka 3",
                 metrics |-> <<
                    [key |-> temperature, entity |-> "sensor.ikea_vindstyrka_3_temperature"],
                    [key |-> humidity,    entity |-> "sensor.ikea_vindstyrka_3_humidity"],
                    [key |-> pm2_5,       entity |-> "sensor.ikea_vindstyrka_3_pm2_5"],
                    [key |-> voc,         entity |-> "sensor.ikea_vindstyrka_3_voc_index"] >>]]
sl1 ==
    [key |-> "sl1",
     config |-> [input_select |-> "input_select.air_probe_sl1_room",
                 name |-> "SmartLife 1",
                 metrics |-> <<
                    [key |-> temperature, entity |-> "sensor.bright_smart_humidity_temperature_sen_temperature"],
                    [key |-> humidity,    entity |-> "sensor.bright_smart_humidity_temperature_sen_humidity"],
                    [key |-> brightness,  entity |-> "sensor.bright_smart_humidity_temperature_sen_illuminance"] >>]]
at1 ==
    [key |-> "at1",
     config |-> [input_select |-> "input_select.air_probe_at1_room",
                 name |-> "Airthings View Plus",
                 metrics |-> <<
                    [key |-> temperature, entity |-> "sensor.view_plus_temperature"],
                    [key |-> humidity,    entity |-> "sensor.view_plus_humidity"],
                    [key |-> pm2_5,       entity |-> "sensor.view_plus_pm2_5"],
                    [key |-> pm1,         entity |-> "sensor.view_plus_pm1"],
                    [key |-> co2,         entity |-> "sensor.view_plus_carbon_dioxide"],
                    [key |-> radon,       entity |-> "sensor.view_plus_radon"],
                    [key |-> voc,         entity |-> "sensor.view_plus_volatile_organic_compounds_parts"],
                    [key |-> pressure,    entity |-> "sensor.view_plus_atmospheric_pressure"] >>]]

(* A table that lists the Airthings sensor before the SmartLife sensor.    *)
PHYSICAL_SENSORS_at1_before_sl1 == <<v1, v2, v3, at1, sl1>>

(* PHYSICAL_SENSORS: physical sensor mappings, in insertion order.         *)
PHYSICAL_SENSORS == <<v1, v2, v3, sl1, at1>>

---------------------------------------------------------------------------
(* Dict helpers: key in d, d[key].                                         *)
HasKey(d, key) == \E i \in 1..Len(d) : d[i].key = key
Lookup(d, key) == d[CHOOSE i \in 1..Len(d) : d[i].key = key]

(* Truthiness of an optional string: None and "" are falsy.                *)
TruthyAlways(x) == TRUE
Truthy(x) == x # None /\ x # ""

(* str.lower() on one code point: ASCII and Latin-1 capital letters.       *)
Lower(c) ==
    IF c \in 65..90 THEN c + 32
    ELSE IF c \in 192..222 /\ c # 215 THEN c + 32
    ELSE c

(* str.replace(old, new) for single characters.                            *)
Replace(s, old, new) == [i \in 1..Len(s) |-> IF s[i] = old THEN new ELSE s[i]]

(* A normalisation that keeps only the text before the first space.        *)
RECURSIVE FirstWord(_)
FirstWord(s) ==
    IF s = <<>> \/ Head(s) = 32 THEN <<>> ELSE <<Head(s)>> \o FirstWord(Tail(s))
normalize_room_name_first_word(room) ==
    Replace(Replace([i \in 1..Len(FirstWord(room)) |-> Lower(FirstWord(room)[i])],
                    248, 111), 229, 97)

(* normalize_room_name: convert room name to valid entity ID format:       *)
(* room.lower().replace(" ", "_").replace("ø", "o").replace("å", "a")      *)
normalize_room_name(room) ==
    Replace(Replace(Replace([i \in 1..Len(room) |-> Lower(room[i])],
                            32, 95), 248, 111), 229, 97)

---------------------------------------------------------------------------
(* One physical line of the generated text.                                *)
Line(t, a) == [t |-> t, a |-> a]

(* `metric_key in sensor_config["metrics"]`                                *)
Declares(sensor_config, metric_key) == HasKey(sensor_config["metrics"], metric_key)

(* The positions in PHYSICAL_SENSORS, from position i on, of the sensors   *)
(* the loop `for sensor_key, sensor_config in PHYSICAL_SENSORS.items()`    *)
(* appends a condition for.                                                *)
RECURSIVE Contributing(_, _)
Contributing(metric_key, i) ==
    IF i > Len(PHYSICAL_SENSORS) THEN <<>>
    ELSE (IF Declares(PHYSICAL_SENSORS[i].config, metric_key) THEN <<i>> ELSE <<>>)
         \o Contributing(metric_key, i + 1)

(* The positions of all sensors, whether or not they supply the metric.    *)
AllSensors == [i \in 1..Len(PHYSICAL_SENSORS) |-> i]

Reverse(s) == [i \in 1..Len(s) |-> s[Len(s) + 1 - i]]

StateCondition(room, metric_key, i) ==
    [input_select  |-> PHYSICAL_SENSORS[i].config["input_select"],
     room          |-> room,
     sensor_entity |-> Lookup(PHYSICAL_SENSORS[i].config["metrics"], metric_key).entity]

(* A list that receives each condition at the front, not at the end.       *)
state_conditions_prepended(room, metric_key) ==
    LET c == Reverse(Contributing(metric_key, 1))
    IN  [j \in 1..Len(c) |-> StateCondition(room, metric_key, c[j])]

(* state_conditions after the loop over PHYSICAL_SENSORS.                  *)
state_conditions(room, metric_key) ==
    LET c == Contributing(metric_key, 1)
    IN  [j \in 1..Len(c) |-> StateCondition(room, metric_key, c[j])]

(* The text  states('{input_select}') == '{room}'  of one condition.       *)
AvailabilityCondition(room, i) ==
    [input_select |-> PHYSICAL_SENSORS[i].config["input_select"], room |-> room]

(* A list that receives a condition for every sensor of the table.         *)
availability_conditions_unfiltered(room, metric_key) ==
    [j \in 1..Len(AllSensors) |-> AvailabilityCondition(room, AllSensors[j])]

(* availability_conditions after the loop over PHYSICAL_SENSORS.           *)
availability_conditions(room, metric_key) ==
    LET c == Contributing(metric_key, 1)
    IN  [j \in 1..Len(c) |-> AvailabilityCondition(room, c[j])]

(* `if not state_conditions`, and the same test off by one.                *)
NoConditionsOrOne(conditions) == Len(conditions) <= 1
NoConditions(conditions) == Len(conditions) = 0

(* The keyword of the i-th branch (i counts from 0, as enumerate does),    *)
(* and a chain whose branches all open with `if`.                          *)
BranchKeywordAlwaysIf(i) == "{% if"
BranchKeyword(i) == IF i = 0 THEN "{% if" ELSE "{% elif"

RECURSIVE Flatten(_)
Flatten(ss) == IF ss = <<>> THEN <<>> ELSE Head(ss) \o Flatten(Tail(ss))

(* state_parts: one part of two lines per condition.                       *)
state_parts(conditions) ==
    [i \in 1..Len(conditions) |->
        << Line(BranchKeyword(i - 1),
                [input_select |-> conditions[i]["input_select"], room |-> conditions[i]["room"]]),
           Line("{{ states", conditions[i]["sensor_entity"]) >>]

(* state_template: ">", the parts, and the fallback branch.                *)
state_template(conditions) ==
    << Line(">", <<>>) >> \o Flatten(state_parts(conditions))
    \o << Line("{% else %}", <<>>), Line("none", <<>>), Line("{% endif %}", <<>>) >>

(* The word that joins the availability conditions.                        *)
availability_join_and == "and"
availability_join == "or"

(* availability_template: ">" and the one line of joined conditions.       *)
availability_template(conditions) ==
    << Line(">", <<>>), Line("{{ }}", [op |-> availability_join, conds |-> conditions]) >>

(* f"        {key}: {template}": the key shares the template's first line. *)
Keyed(key, template) == << Line(key, template[1].t) >> \o Tail(template)

(* unique_id = f"{metric_key}_{room_normalized}"                           *)
unique_id(metric_key, room_normalized) == metric_key \o <<95>> \o room_normalized

(* What generate_template_sensor returns when no sensor provides the       *)
(* metric: None, which `if sensor:` treats as it treats an empty text.     *)
NoSensor == <<>>

(* yaml_lines joined by "\n".                                              *)
yaml_lines(room, metric_key, metric_def) ==
    << Line("- name:", [metric |-> metric_def["name"], room |-> room]),
       Line("unique_id:", unique_id(metric_key, normalize_room_name(room))) >>
    \o (IF Truthy(metric_def["device_class"])
        THEN << Line("device_class:", metric_def["device_class"]) >> ELSE <<>>)
    \o (IF Truthy(metric_def["state_class"])
        THEN << Line("state_class:", metric_def["state_class"]) >> ELSE <<>>)
    \o (IF Truthy(metric_def["unit"])
        THEN << Line("unit_of_measurement:", metric_def["unit"]) >> ELSE <<>>)
    \o Keyed("state:", state_template(state_conditions(room, metric_key)))
    \o Keyed("availability:", availability_template(availability_conditions(room, metric_key)))
    \o << Line("attributes:", <<>>), Line("room_sensor:", "true") >>

(* generate_template_sensor: a single template sensor as YAML text.        *)
generate_template_sensor(room, metric_key, metric_def) ==
    IF NoConditions(state_conditions(room, metric_key))
    THEN NoSensor
    ELSE yaml_lines(room, metric_key, metric_def)

---------------------------------------------------------------------------
(* "\n\n".join(sensors): one blank line between consecutive blocks; the    *)
(* blocks from lo to hi, joined by halves.                                 *)
RECURSIVE JoinRange(_, _, _)
JoinRange(blocks, lo, hi) ==
    IF lo > hi THEN <<>>
    ELSE IF lo = hi THEN blocks[lo]
    ELSE LET mid == (lo + hi) \div 2
         IN  JoinRange(blocks, lo, mid) \o << Line("", <<>>) >> \o JoinRange(blocks, mid + 1, hi)
JoinBlankLine(blocks) == JoinRange(blocks, 1, Len(blocks))

(* yaml_content.count(sub): the lines of kind sub; the values interpolated *)
(* into a line come from the tables and never contain "- name:".           *)
CountAnyDash(text, sub) ==
    Cardinality({i \in 1..Len(text) : text[i].t \in {"- name:", "- sensor:"}})
Count(text, sub) == Cardinality({i \in 1..Len(text) : text[i].t = sub})

(* The numbers the header comment of the written file states.              *)
HEADER_SENSORS == 207
HEADER_METRICS == 9
HEADER_ROOMS == 23

(* header: the fixed comment block and the empty line after it.            *)
header ==
    << Line("# header", [sensors |-> HEADER_SENSORS, metrics |-> HEADER_METRICS,
                         rooms |-> HEADER_ROOMS]),
       Line("", <<>>) >>

(* The order of the nested loops `for room in ROOMS: for metric_key,       *)
(* metric_def in METRICS.items()`: the position after <<r, m>>; and the    *)
(* same loops nested the other way round.                                  *)
NextPositionMetricMajor(r, m) ==
    IF r < Len(ROOMS) THEN <<r + 1, m>> ELSE <<1, m + 1>>
NextPosition(r, m) ==
    IF m < Len(METRICS) THEN <<r, m + 1>> ELSE <<r + 1, 1>>

LoopDone(pos) == pos[1] > Len(ROOMS) \/ pos[2] > Len(METRICS)

---------------------------------------------------------------------------
(* The selectors (input_select entities) of the physical sensors, and the  *)
(* values the model lets them take: some rooms, and a value that is no     *)
(* room.                                                                   *)
InputSelects == {PHYSICAL_SENSORS[i].config["input_select"] : i \in 1..Len(PHYSICAL_SENSORS)}
Unassigned == <<>>
SelRooms == {ROOMS[i] : i \in (Len(ROOMS) - MaxSelRooms + 1)..Len(ROOMS)}
SelValues == SelRooms \cup {Unassigned}

VARIABLES
    pc,            \* position of main(): "generate", "build", "write", "done"
    room_i,        \* position of the loop over ROOMS
    metric_i,      \* position of the loop over METRICS.items()
    sensors,       \* the list `sensors` of generate_configuration
    emitted,       \* history: <<room_i, metric_i>> of each appended block
    yaml_output,   \* the text generate_configuration returns (yaml_content)
    file,          \* the content of the output file
    sensor_count,  \* the count write_yaml_file prints
    sel            \* the current state of each selector

vars == <<pc, room_i, metric_i, sensors, emitted, yaml_output, file, sensor_count, sel>>

Init ==
    /\ pc = "generate"
    /\ room_i = 1
    /\ metric_i = 1
    /\ sensors = <<>>
    /\ emitted = <<>>
    /\ yaml_output = <<>>
    /\ file = <<>>
    /\ sensor_count = 0
    /\ sel = [s \in InputSelects |-> Unassigned]

(* One iteration of the inner loop of generate_configuration.              *)
GenerateStep ==
    /\ pc = "generate"
    /\ LET sensor == generate_template_sensor(ROOMS[room_i], METRICS[metric_i].key,
                                              METRICS[metric_i].def)
           pos    == NextPosition(room_i, metric_i)
       IN  /\ IF sensor # NoSensor
              THEN /\ sensors' = Append(sensors, sensor)
                   /\ emitted' = Append(emitted, <<room_i, metric_i>>)
              ELSE UNCHANGED <<sensors, emitted>>
           /\ room_i' = pos[1]
           /\ metric_i' = pos[2]
           /\ pc' = IF LoopDone(pos) THEN "build" ELSE "generate"
    /\ UNCHANGED <<yaml_output, file, sensor_count, sel>>

(* The end of generate_configuration: header lines and the joined blocks.  *)
BuildOutput ==
    /\ pc = "build"
    /\ yaml_output' = << Line("template:", <<>>), Line("- sensor:", <<>>) >>
                      \o JoinBlankLine(sensors)
    /\ pc' = "write"
    /\ UNCHANGED <<room_i, metric_i, sensors, emitted, file, sensor_count, sel>>

(* write_yaml_file: header and content, then the count of sensors; main    *)
(* returns after it, and of the process the file and the output remain.    *)
WriteYamlFile ==
    /\ pc = "write"
    /\ file' = header \o yaml_output
    /\ sensor_count' = Count(yaml_output, "- name:")
    /\ pc' = "done"
    /\ sensors' = <<>>
    /\ yaml_output' = <<>>
    /\ UNCHANGED <<room_i, metric_i, emitted, sel>>

(* Home Assistant, with the file in place: a selector is set to another of *)
(* its values.                                                             *)
SetSelector ==
    /\ pc = "done"
    /\ \E s \in InputSelects, v \in SelValues :
          /\ v # sel[s]
          /\ sel' = [sel EXCEPT ![s] = v]
    /\ UNCHANGED <<pc, room_i, metric_i, sensors, emitted, yaml_output, file, sensor_count>>

Next == GenerateStep \/ BuildOutput \/ WriteYamlFile \/ SetSelector

Spec == Init /\ [][Next]_vars

---------------------------------------------------------------------------
(* Reading a generated block back.                                         *)

Indices(text) == [i \in 1..Len(text) |-> i]
Kinds(text) == [i \in 1..Len(text) |-> text[i].t]
Occurrences(text, t) == Cardinality({i \in 1..Len(text) : text[i].t = t})
IsBranch(line) == line.t \in {"{% if", "{% elif"}

(* The positions of the conditional branches of the state expression.     *)
BranchAt(block) == SelectSeq(Indices(block), LAMBDA i : IsBranch(block[i]))

(* Each branch as <<selector, room, entity>>; the entity is on the line    *)
(* after the test.                                                         *)
Branches(block) ==
    LET at == BranchAt(block)
    IN  [j \in 1..Len(at) |->
            << block[at[j]].a["input_select"], block[at[j]].a["room"],
               IF at[j] < Len(block) /\ block[at[j] + 1].t = "{{ states"
               THEN block[at[j] + 1].a ELSE "?" >>]

(* The selector tests of the availability expression, as <<selector, room>>. *)
AvailabilityLine(block) ==
    block[CHOOSE i \in 1..Len(block) : block[i].t = "{{ }}"]
AvailabilityTests(block) ==
    LET c == AvailabilityLine(block).a["conds"]
    IN  [j \in 1..Len(c) |-> << c[j]["input_select"], c[j]["room"] >>]

(* The lines of a block from the state key up to the availability key.     *)
StateSection(block) ==
    LET from == CHOOSE i \in 1..Len(block) : block[i].t = "state:"
        to   == CHOOSE i \in 1..Len(block) : block[i].t = "availability:"
    IN  SubSeq(block, from, to - 1)

(* The unique_id of a block.                                               *)
UniqueIdOf(block) == block[CHOOSE i \in 1..Len(block) : block[i].t = "unique_id:"].a

(* The sensors of the table that declare a metric, in table order, read    *)
(* from the table itself.                                                  *)
DeclaringSensors(metric_key) ==
    SelectSeq(PHYSICAL_SENSORS,
              LAMBDA s : \E e \in 1..Len(s.config.metrics) : s.config.metrics[e].key = metric_key)
EntityFor(s, metric_key) ==
    s.config.metrics[CHOOSE e \in 1..Len(s.config.metrics) :
                        s.config.metrics[e].key = metric_key].entity
ExpectedBranches(room, metric_key) ==
    LET d == DeclaringSensors(metric_key)
    IN  [j \in 1..Len(d) |-> << d[j].config.input_select, room, EntityFor(d[j], metric_key) >>]

RoomOf(k) == ROOMS[emitted[k][1]]
MetricOf(k) == METRICS[emitted[k][2]]
EverEmitted(r, m) == \E k \in 1..Len(emitted) : emitted[k] = <<r, m>>
Emitted(r, m) == \E k \in 1..Len(sensors) : emitted[k] = <<r, m>>
BlockOf(r, m) == sensors[CHOOSE k \in 1..Len(emitted) : emitted[k] = <<r, m>>]
RoomIndex(room) == CHOOSE i \in 1..Len(ROOMS) : ROOMS[i] = room
MetricIndex(key) == CHOOSE i \in 1..Len(METRICS) : METRICS[i].key = key

Stue == <<83, 116, 117, 101>>
Garasje == <<71, 97, 114, 97, 115, 106, 101>>

(* The loop has passed position <<r, m>>.                                  *)
Passed(r, m) ==
    pc # "generate" \/ r < room_i \/ (r = room_i /\ m < metric_i)

---------------------------------------------------------------------------
(* C1: for every room R and metric key M, generate_template_sensor returns *)
(* a block (not None) iff at least one entry of PHYSICAL_SENSORS has M     *)
(* among the keys of its metrics, and generate_configuration emits a block *)
(* for (R, M) exactly in that case; the k-th emitted block is the block of *)
(* the k-th such pair.                                                     *)
C1_BlockIffDeclared ==
    /\ pc = "generate" =>
          ((generate_template_sensor(ROOMS[room_i], METRICS[metric_i].key,
                                     METRICS[metric_i].def) # NoSensor)
           <=> DeclaringSensors(METRICS[metric_i].key) # <<>>)
    /\ \A r \in 1..Len(ROOMS), m \in 1..Len(METRICS) :
          Passed(r, m) => (EverEmitted(r, m) <=> DeclaringSensors(METRICS[m].key) # <<>>)
    /\ pc # "done" => Len(sensors) = Len(emitted)
    /\ \A k \in 1..Len(sensors) :
          /\ sensors[k] # NoSensor
          /\ sensors[k][1].t = "- name:"
          /\ sensors[k][1].a = [metric |-> MetricOf(k).def.name, room |-> RoomOf(k)]

C1_Witness ==
    /\ pc = "write"
    /\ Emitted(RoomIndex(Garasje), MetricIndex(radon))
    /\ Emitted(RoomIndex(Stue), MetricIndex(brightness))

(* C2 as stated: for room "Stue" and metric "temperature" the block has    *)
(* exactly 4 conditional branches, for v1, v2, v3, at1 in that order, then *)
(* the else -> none fallback, and its availability ORs the same 4 tests.   *)
C2_FourBranches ==
    Emitted(RoomIndex(Stue), MetricIndex(temperature)) =>
        LET b == BlockOf(RoomIndex(Stue), MetricIndex(temperature))
        IN  /\ Len(Branches(b)) = 4
            /\ [j \in 1..Len(Branches(b)) |-> Branches(b)[j][1]]
                  = << v1.config.input_select, v2.config.input_select,
                       v3.config.input_select, at1.config.input_select >>
            /\ Len(AvailabilityTests(b)) = 4

(* C2, amended: the block for ("Stue", "temperature") has exactly 5        *)
(* conditional branches, for v1, v2, v3, sl1, at1 in that order, each      *)
(* testing the sensor's selector against "Stue" and yielding its           *)
(* temperature entity, then the else -> none fallback; its availability    *)
(* ORs the same 5 selector tests.                                          *)
C2_FiveBranches ==
    Emitted(RoomIndex(Stue), MetricIndex(temperature)) =>
        LET b == BlockOf(RoomIndex(Stue), MetricIndex(temperature))
        IN  /\ Branches(b)
                 = << << "input_select.air_probe_v1_room", Stue,
                         "sensor.ikea_vindstyrka_1_temperature" >>,
                      << "input_select.air_probe_v2_room", Stue,
                         "sensor.ikea_vindstyrka_2_temperature" >>,
                      << "input_select.air_probe_v3_room", Stue,
                         "sensor.ikea_vindstyrka_3_temperature" >>,
                      << "input_select.air_probe_sl1_room", Stue,
                         "sensor.bright_smart_humidity_temperature_sen_temperature" >>,
                      << "input_select.air_probe_at1_room", Stue,
                         "sensor.view_plus_temperature" >> >>
            /\ Kinds(SubSeq(StateSection(b), Len(StateSection(b)) - 2, Len(StateSection(b))))
                 = << "{% else %}", "none", "{% endif %}" >>
            /\ AvailabilityLine(b).a["op"] = "or"
            /\ AvailabilityTests(b)
                 = << << "input_select.air_probe_v1_room", Stue >>,
                      << "input_select.air_probe_v2_room", Stue >>,
                      << "input_select.air_probe_v3_room", Stue >>,
                      << "input_select.air_probe_sl1_room", Stue >>,
                      << "input_select.air_probe_at1_room", Stue >> >>

C2_Witness ==
    /\ Emitted(RoomIndex(Stue), MetricIndex(temperature))
    /\ Len(Branches(BlockOf(RoomIndex(Stue), MetricIndex(temperature)))) = 5

(* The kinds of the lines of a state expression with n branches.           *)
RECURSIVE ElifParts(_)
ElifParts(n) == IF n <= 0 THEN <<>> ELSE << "{% elif", "{{ states" >> \o ElifParts(n - 1)
ChainKinds(n) ==
    << "state:", "{% if", "{{ states" >> \o ElifParts(n - 1)
    \o << "{% else %}", "none", "{% endif %}" >>

(* C3: for every emitted block (R, M) with N physical sensors declaring M, *)
(* the state expression is one 'if' followed by N-1 'elif', one branch per *)
(* declaring sensor in table order, each testing that sensor's selector    *)
(* against R and yielding that sensor's entity for M, followed by exactly  *)
(* one 'else' branch yielding 'none'; (Garasje, radon) and (any room,      *)
(* brightness) have exactly 1 conditional branch.                          *)
C3_BranchChain ==
    \A k \in 1..Len(sensors) :
        LET b == sensors[k]
            n == Len(DeclaringSensors(MetricOf(k).key))
        IN  /\ n >= 1
            /\ Kinds(StateSection(b)) = ChainKinds(n)
            /\ Len(BranchAt(b)) = n
            /\ Branches(b) = ExpectedBranches(RoomOf(k), MetricOf(k).key)
            /\ Occurrences(b, "{% else %}") = 1
            /\ MetricOf(k).key = brightness => Len(BranchAt(b)) = 1
            /\ (RoomOf(k) = Garasje /\ MetricOf(k).key = radon) => Len(BranchAt(b)) = 1

C3_Witness ==
    /\ Emitted(RoomIndex(Garasje), MetricIndex(radon))
    /\ Len(BranchAt(BlockOf(RoomIndex(Garasje), MetricIndex(radon)))) = 1
    /\ Emitted(RoomIndex(Garasje), MetricIndex(pm2_5))
    /\ Kinds(StateSection(BlockOf(RoomIndex(Garasje), MetricIndex(pm2_5)))) = ChainKinds(4)

(* C4: for every emitted block, the availability expression is a           *)
(* disjunction of selector-equals-room tests over exactly the same sensors,*)
(* in the same order and with the same selector and room, as the branches  *)
(* of that block's state expression.                                       *)
C4_AvailabilitySameSensors ==
    \A k \in 1..Len(sensors) :
        LET b == sensors[k]
        IN  /\ Occurrences(b, "{{ }}") = 1
            /\ AvailabilityLine(b).a["op"] = "or"
            /\ AvailabilityTests(b)
                 = [j \in 1..Len(Branches(b)) |-> << Branches(b)[j][1], Branches(b)[j][2] >>]
            /\ \A j \in 1..Len(AvailabilityTests(b)) : AvailabilityTests(b)[j][2] = RoomOf(k)

C4_Witness ==
    /\ Emitted(RoomIndex(Stue), MetricIndex(voc))
    /\ Len(AvailabilityTests(BlockOf(RoomIndex(Stue), MetricIndex(voc)))) = 4
    /\ Emitted(RoomIndex(Stue), MetricIndex(brightness))
    /\ Len(AvailabilityTests(BlockOf(RoomIndex(Stue), MetricIndex(brightness)))) = 1

(* C5: no two blocks of the output share a unique_id, and the unique_id of *)
(* the block of (R, M) is M's key, '_', and R lowercased with spaces as    *)
(* underscores and 'ø', 'å' folded.                                        *)
C5_UniqueIds ==
    /\ Cardinality({UniqueIdOf(sensors[k]) : k \in 1..Len(sensors)}) = Len(sensors)
    /\ \A k \in 1..Len(sensors) :
          LET u == UniqueIdOf(sensors[k])
              key == MetricOf(k).key
              room == RoomOf(k)
          IN  /\ Len(u) = Len(key) + 1 + Len(room)
              /\ SubSeq(u, 1, Len(key)) = key
              /\ u[Len(key) + 1] = 95
              /\ \A i \in 1..Len(room) :
                    u[Len(key) + 1 + i] =
                        CASE room[i] = 32 -> 95
                          [] room[i] = 248 -> 111
                          [] room[i] = 229 -> 97
                          [] room[i] \in 65..90 -> room[i] + 32
                          [] OTHER -> room[i]

(* All 207 blocks are out, among them those of "Bod 1", "Bod 2",           *)
(* "Kjøkken" and the metric pm2_5: pm2_5_kjokken.                          *)
C5_Witness ==
    /\ pc = "write"
    /\ Len(sensors) = Len(ROOMS) * Len(METRICS)
    /\ \E k \in 1..Len(sensors) :
          UniqueIdOf(sensors[k]) = <<112, 109, 50, 95, 53, 95, 107, 106, 111, 107, 107, 101, 110>>
    /\ \E k \in 1..Len(sensors) :
          UniqueIdOf(sensors[k]) = <<112, 109, 49, 95, 98, 111, 100, 95, 50>>

---------------------------------------------------------------------------
(* The sensor blocks of the written file: each starts at its '- name:'     *)
(* line and ends before the blank line that precedes the next one.         *)
FileBlocks ==
    LET names == SelectSeq(Indices(file), LAMBDA i : file[i].t = "- name:")
    IN  [k \in 1..Len(names) |->
            SubSeq(file, names[k],
                   IF k < Len(names) THEN names[k + 1] - 2 ELSE Len(file))]
NamedRoom(block) == block[1].a["room"]
NamedKey(block) ==
    METRICS[CHOOSE m \in 1..Len(METRICS) : METRICS[m].def.name = block[1].a["metric"]].key
FileBlock(room, metric_key) ==
    FileBlocks[CHOOSE k \in 1..Len(FileBlocks) :
                  NamedRoom(FileBlocks[k]) = room /\ NamedKey(FileBlocks[k]) = metric_key]

(* What the generated expressions evaluate to in Home Assistant, where     *)
(* states(e) is the current state of entity e.  The value of a supplying   *)
(* entity is kept symbolic: the result names the entity whose state the    *)
(* chosen branch renders, or is the text of the fallback branch.           *)

(* The if / elif / else chain: the first branch whose test holds.          *)
EvalState(block, states) ==
    LET at   == BranchAt(block)
        hits == {j \in 1..Len(at) :
                    states[block[at[j]].a["input_select"]] = block[at[j]].a["room"]}
    IN  IF hits = {}
        THEN block[(CHOOSE i \in 1..Len(block) : block[i].t = "{% else %}") + 1].t
        ELSE block[at[CHOOSE j \in hits : \A h \in hits : j <= h] + 1].a

(* The availability expression: the tests joined by `or` (or by `and`).    *)
EvalAvailability(block, states) ==
    LET e == AvailabilityLine(block).a
    IN  IF e["op"] = "or"
        THEN \E j \in 1..Len(e["conds"]) :
                states[e["conds"][j]["input_select"]] = e["conds"][j]["room"]
        ELSE \A j \in 1..Len(e["conds"]) :
                states[e["conds"][j]["input_select"]] = e["conds"][j]["room"]

---------------------------------------------------------------------------
(* The number of lines blocks lo..hi take, each with the line after it,   *)
(* and the first line of each of them in a text where block lo starts at   *)
(* line `at`.                                                              *)
RECURSIVE Span(_, _, _)
Span(blocks, lo, hi) ==
    IF lo > hi THEN 0
    ELSE IF lo = hi THEN Len(blocks[lo]) + 1
    ELSE Span(blocks, lo, (lo + hi) \div 2) + Span(blocks, (lo + hi) \div 2 + 1, hi)
RECURSIVE StartsRange(_, _, _, _)
StartsRange(blocks, lo, hi, at) ==
    IF lo > hi THEN <<>>
    ELSE IF lo = hi THEN << at >>
    ELSE LET mid == (lo + hi) \div 2
         IN  StartsRange(blocks, lo, mid, at)
             \o StartsRange(blocks, mid + 1, hi, at + Span(blocks, lo, mid))
Starts(blocks, at) == StartsRange(blocks, 1, Len(blocks), at)

(* C6: blocks are emitted in room-major, metric-minor order: of any two    *)
(* emitted blocks (R1, M1) and (R2, M2) the first precedes the second iff  *)
(* R1 precedes R2 in ROOMS, or R1 = R2 and M1 precedes M2 in METRICS; the  *)
(* output is the single 'template: / - sensor:' header followed by the     *)
(* blocks in that order, consecutive blocks separated by one blank line.   *)
(* While the loop runs the newest block is compared with all before it;    *)
(* when the loop has ended, every pair is; the text is read when           *)
(* generate_configuration has returned it.                                 *)
C6_RoomMajorOrder ==
    /\ \A i \in 1..Len(emitted) :
          LET j == Len(emitted)
          IN  (i < j) <=> \/ emitted[i][1] < emitted[j][1]
                          \/ emitted[i][1] = emitted[j][1] /\ emitted[i][2] < emitted[j][2]
    /\ pc \in {"build", "write"} =>
          \A i, j \in 1..Len(emitted) :
             (i < j) <=> \/ emitted[i][1] < emitted[j][1]
                         \/ emitted[i][1] = emitted[j][1] /\ emitted[i][2] < emitted[j][2]
    /\ pc = "write" =>
          LET st == Starts(sensors, 3)
              n  == Len(sensors)
          IN  /\ Kinds(SubSeq(yaml_output, 1, 2)) = << "template:", "- sensor:" >>
              /\ Occurrences(yaml_output, "template:") = 1
              /\ Occurrences(yaml_output, "- sensor:") = 1
              /\ Occurrences(yaml_output, "- name:") = n
              /\ Occurrences(yaml_output, "") = n - 1
              /\ Len(yaml_output) = st[n] + Len(sensors[n]) - 1
              /\ \A k \in 1..n :
                    /\ Kinds(SubSeq(yaml_output, st[k], st[k] + Len(sensors[k]) - 1))
                          = Kinds(sensors[k])
                    /\ yaml_output[st[k]].a = sensors[k][1].a
                    /\ k < n => yaml_output[st[k] + Len(sensors[k])].t = ""

C6_Witness ==
    /\ pc = "write"
    /\ Len(emitted) > Len(METRICS)
    /\ emitted[1] = <<1, 1>>
    /\ emitted[2] = <<1, 2>>
    /\ emitted[Len(METRICS) + 1] = <<2, 1>>
    /\ yaml_output[3].t = "- name:"
    /\ Occurrences(yaml_output, "") > 0

(* C7: every metric key of METRICS is declared by at least one physical    *)
(* sensor, so generate_configuration emits |ROOMS| x |METRICS| = 23 x 9 =  *)
(* 207 blocks, the count the file header states and the count              *)
(* write_yaml_file reports.                                                *)
C7_BlockCount ==
    /\ \A m \in 1..Len(METRICS) : DeclaringSensors(METRICS[m].key) # <<>>
    /\ pc \in {"build", "write", "done"} =>
          /\ Len(ROOMS) = 23
          /\ Len(METRICS) = 9
          /\ Len(emitted) = Len(ROOMS) * Len(METRICS)
          /\ Len(emitted) = 207
    /\ pc \in {"build", "write"} => Len(sensors) = 207
    /\ pc = "done" =>
          /\ sensor_count = Len(emitted)
          /\ Len(FileBlocks) = Len(emitted)
          /\ file[1].t = "# header"
          /\ file[1].a["sensors"] = Len(emitted)
          /\ file[1].a["metrics"] = Len(METRICS)
          /\ file[1].a["rooms"] = Len(ROOMS)

C7_Witness ==
    /\ pc = "done"
    /\ sensor_count = 207
    /\ Len(FileBlocks) = 207

(* The keys of a block, in the order of their lines.                       *)
BlockKeys(block) ==
    SelectSeq(Kinds(block),
              LAMBDA t : t \in {"- name:", "unique_id:", "device_class:", "state_class:",
                                "unit_of_measurement:", "state:", "availability:",
                                "attributes:", "room_sensor:"})
ValueOf(block, key) == block[CHOOSE i \in 1..Len(block) : block[i].t = key].a
Given(x) == x \notin {None, ""}

(* C8: in every emitted block the device_class, state_class and            *)
(* unit_of_measurement lines are each present iff the metric definition    *)
(* gives a non-empty value for that field (radon blocks have no            *)
(* device_class line, voc blocks no unit_of_measurement line); name,       *)
(* unique_id, state, availability and the attribute 'room_sensor: true'    *)
(* are in every block; the order is name, unique_id, [device_class],       *)
(* [state_class], [unit_of_measurement], state, availability, attributes.  *)
C8_OptionalLines ==
    \A k \in 1..Len(sensors) :
        LET b == sensors[k]
            d == MetricOf(k).def
        IN  /\ BlockKeys(b) =
                  << "- name:", "unique_id:" >>
                  \o (IF Given(d.device_class) THEN << "device_class:" >> ELSE <<>>)
                  \o (IF Given(d.state_class) THEN << "state_class:" >> ELSE <<>>)
                  \o (IF Given(d.unit) THEN << "unit_of_measurement:" >> ELSE <<>>)
                  \o << "state:", "availability:", "attributes:", "room_sensor:" >>
            /\ Given(d.device_class) => ValueOf(b, "device_class:") = d.device_class
            /\ Given(d.state_class) => ValueOf(b, "state_class:") = d.state_class
            /\ Given(d.unit) => ValueOf(b, "unit_of_measurement:") = d.unit
            /\ ValueOf(b, "room_sensor:") = "true"
            /\ Kinds(SubSeq(b, Len(b) - 1, Len(b))) = << "attributes:", "room_sensor:" >>
            /\ MetricOf(k).key = radon => Occurrences(b, "device_class:") = 0
            /\ MetricOf(k).key = voc => Occurrences(b, "unit_of_measurement:") = 0

C8_Witness ==
    /\ Emitted(1, MetricIndex(radon))
    /\ Emitted(1, MetricIndex(voc))
    /\ Emitted(1, MetricIndex(temperature))
    /\ Occurrences(BlockOf(1, MetricIndex(radon)), "device_class:") = 0
    /\ Occurrences(BlockOf(1, MetricIndex(radon)), "unit_of_measurement:") = 1
    /\ Occurrences(BlockOf(1, MetricIndex(voc)), "unit_of_measurement:") = 0
    /\ Len(BlockKeys(BlockOf(1, MetricIndex(temperature)))) = 9

(* The positions in d, the declaring sensors, of those currently assigned *)
(* to a room.                                                              *)
AssignedIn(d, room) == {j \in 1..Len(d) : sel[d[j].config.input_select] = room}
FirstOf(S) == CHOOSE j \in S : \A h \in S : j <= h

(* C9: under any assignment of selector values, also with two or more      *)
(* sensors assigned to the same room R, the state expression of block      *)
(* (R, M) of the file yields the entity of the FIRST sensor, in table      *)
(* order, among those that declare M and whose selector equals R, and the  *)
(* fallback if there is none; it reads the selector of no sensor that does *)
(* not declare M.                                                          *)
C9_FirstAssignedWins ==
    LET blocks == FileBlocks
    IN  \A k \in 1..Len(blocks) :
            LET b == blocks[k]
                key == NamedKey(b)
                d == DeclaringSensors(key)
                assigned == AssignedIn(d, NamedRoom(b))
            IN  /\ EvalState(b, sel) =
                      IF assigned = {} THEN "none"
                      ELSE EntityFor(d[FirstOf(assigned)], key)
                /\ {b[i].a["input_select"] : i \in {i \in 1..Len(b) : IsBranch(b[i])}}
                      = {d[j].config.input_select : j \in 1..Len(d)}

C9_Witness ==
    /\ pc = "done"
    /\ sel[v1.config.input_select] = Stue
    /\ sel[sl1.config.input_select] = Stue
    /\ sel[at1.config.input_select] = Stue
    /\ EvalState(FileBlock(Stue, temperature), sel) = "sensor.ikea_vindstyrka_1_temperature"
    /\ EvalState(FileBlock(Stue, brightness), sel)
          = "sensor.bright_smart_humidity_temperature_sen_illuminance"

(* C10: under every assignment of selector values and for every block      *)
(* (R, M) of the file, the availability expression is true iff at least    *)
(* one sensor declaring M is assigned to R, which is exactly when the      *)
(* state expression takes a sensor branch and not the 'none' fallback.     *)
C10_AvailableIffSensorBranch ==
    LET blocks == FileBlocks
    IN  \A k \in 1..Len(blocks) :
            LET b == blocks[k]
                assigned == AssignedIn(DeclaringSensors(NamedKey(b)), NamedRoom(b))
            IN  /\ EvalAvailability(b, sel) <=> assigned # {}
                /\ EvalAvailability(b, sel) <=> EvalState(b, sel) # "none"

(* brightness in a room where sl1 is not assigned while v1 is.             *)
C10_Witness ==
    /\ pc = "done"
    /\ sel[v1.config.input_select] = Stue
    /\ sel[sl1.config.input_select] # Stue
    /\ ~EvalAvailability(FileBlock(Stue, brightness), sel)
    /\ EvalState(FileBlock(Stue, brightness), sel) = "none"
    /\ EvalAvailability(FileBlock(Stue, temperature), sel)
====
